---- MODULE Spec2Model ----
(***************************************************************************)
(* Model of services/api/src/migrations/1-rbac/projects.ts: the one-pass   *)
(* reconciliation of legacy project rows into identity-provider groups,    *)
(* memberships and key-bound default users.  One action per awaited call   *)
(* of the script; every awaited call may succeed or throw.                 *)
(***************************************************************************)
EXTENDS Integers, Sequences, FiniteSets, TLC

\* ------------------------------------------------------------------ bounds
NumProjects == 2
MaxRuns == 2
MaxFailures == 1

Projects == 1..NumProjects
Names == <<"alpha", "beta", "gamma", "delta">>

\* ------------------------------------------------------- key material

\* A private-key text as stored in a private_key column.
KeyText(kind, k) == [kind |-> kind, key |-> k]
Null == KeyText("null", 0)
Empty == KeyText("empty", 0)
Garbage == KeyText("garbage", 0)

\* R.isNil / R.isEmpty on the stored field, and JavaScript truthiness of it.
IsNil(t) == t.kind = "null"
IsEmpty(t) == t.kind = "empty"
Truthy(t) == t.kind \notin {"null", "empty"}

\* sshpk parsePrivateKey: accepts PEM and OpenSSH texts, throws on any other.
ParseableAnything(t) == TRUE
Parseable(t) == t.kind \in {"pem", "openssh"}
parsePrivateKey(t) == t.key

\* privateKey.toString('openssh')
ToOpenssh(k) == KeyText("openssh", k)

\* R.replace(/\n/g, '\n', s): every newline is replaced by a newline.
ReplaceNewlines(t) == t

\* The stored keys are RSA deploy keys; generated ones are Ed25519.
KeyTypeOf(k) == IF k <= NumProjects THEN "ssh-rsa" ELSE "ssh-ed25519"

\* privateKey.toPublic().toString(): "<type> <value>", kept as its two parts.
ToPublic(k) == <<KeyTypeOf(k), k>>

\* keyPair.public.split(' ')
KeyParts(pub) == [keyType |-> pub[1], keyValue |-> pub[2]]

\* getSshKeyFingerprint: a digest of the public key's value.
getSshKeyFingerprint(pub) == 1000 + pub[2]

\* insertSshKey({id: null, name, keyValue, keyType, keyFingerprint})
SshKeyRow(id, pub) ==
  [id |-> id, keyType |-> KeyParts(pub).keyType, keyValue |-> KeyParts(pub).keyValue,
   keyFingerprint |-> getSshKeyFingerprint(pub)]

\* The keypair built from a private key object.
KeyPairOf(k) == [private |-> ReplaceNewlines(ToOpenssh(k)), public |-> ToPublic(k)]

\* ------------------------------------------------------- groups

TypeAttr == "type"
ProjectsAttr == "lagoon-projects"

projectGroupName(name) == <<"project-", name>>
defaultUserName(name) == <<"default-user@", name>>

\* The attributes the script sets on a project's group.
NewAttributes(pid) == (TypeAttr :> <<"project-default-group">>) @@ (ProjectsAttr :> <<pid>>)

SpreadAppend(existing, new) ==
  [k \in DOMAIN existing \cup DOMAIN new |->
     IF k \in DOMAIN new
       THEN (IF k \in DOMAIN existing THEN existing[k] ELSE <<>>) \o new[k]
       ELSE existing[k]]
SpreadReplace(existing, new) == new
\* { ...existing, type: [...], 'lagoon-projects': [...] }
SpreadAttributes(existing, new) ==
  [k \in DOMAIN existing \cup DOMAIN new |->
     IF k \in DOMAIN new THEN new[k] ELSE existing[k]]

\* Attributes of a group that exists before the first run.
StaleAttributes ==
  (TypeAttr :> <<"stale">>) @@ (ProjectsAttr :> <<0>>) @@ ("foo" :> <<"bar">>)

\* Ids handed out by the identity provider and by the auto-increment column.
FreshId(rows) == IF rows = {} THEN 1 ELSE 1 + CHOOSE n \in {r.id : r \in rows} : \A r \in rows : r.id <= n

email(u) == <<u, "@example.com">>

\* ------------------------------------------------------------------ state
VARIABLES
  project, customer, projectUser, sshKey, userSshKey,   \* relational store
  groups, users, members,                               \* identity provider
  pc, run, projectRecords, i, existingGroup, keycloakGroup,
  projectUserRecords, j, owner, keyPair, userId, user, insertId,
  generated, failures, runFailed, prevClean, snap, ops, genCount,
  addUserCount, fpOf, identityOf, guestOf, destroyed, completed, backfills

db == <<project, customer, projectUser, sshKey, userSshKey>>
kc == <<groups, users, members>>
locals == <<existingGroup, keycloakGroup, projectUserRecords, j, owner,
            keyPair, userId, user, insertId>>
perRun == <<fpOf, identityOf, guestOf>>
counts == <<generated, genCount, addUserCount>>
ctl == <<run, projectRecords, prevClean, snap, destroyed, completed, backfills>>
vars == <<db, kc, pc, i, locals, failures, runFailed, ops, perRun, counts, ctl>>

\* What a run leaves behind.
Store == [groups |-> groups, members |-> members, users |-> users,
          sshKey |-> sshKey, userSshKey |-> userSshKey, project |-> project]

\* The texts a project row may hold before the first run: project p's own
\* deploy key is key p; the customer's key is key 1 in PEM form.
StoredKinds == {"null", "empty", "garbage", "openssh"}
InitialKey(p, kind) == IF kind = "openssh" THEN ToOpenssh(p) ELSE KeyText(kind, 0)
CustomerKeys == {Null, KeyText("pem", 1)}
\* The legacy project_user rows: even projects have two users, odd ones none.
UserRows(p) == IF p % 2 = 0 THEN <<email("a"), email("b")>> ELSE <<>>
\* The key records and links that exist before the first run: none, or user a's
\* own key, which is the public key of the deploy key project 2 stores. User
\* keys that meet no project's key play no part in the run and are left out.
UserKeys(kinds) == IF kinds[2] = "openssh" THEN {{}, {SshKeyRow(1, ToPublic(2))}} ELSE {{}}
UserKeyLinks(keys) == {[usid |-> 1, skid |-> k.id] : k \in keys}

Init ==
  /\ \E kinds \in [Projects -> StoredKinds] :
       /\ project = [p \in Projects |->
                      [id |-> p, name |-> Names[p], customer |-> 1,
                       privateKey |-> InitialKey(p, kinds[p])]]
       /\ sshKey \in UserKeys(kinds)
  /\ userSshKey = UserKeyLinks(sshKey)
  /\ customer \in CustomerKeys
  /\ projectUser = [p \in Projects |-> UserRows(p)]
  /\ \E pre \in {{}, Projects} :
       groups = {[id |-> p, name |-> projectGroupName(Names[p]),
                  attributes |-> StaleAttributes] : p \in pre}
  /\ users = {[id |-> 1, username |-> email("a")], [id |-> 2, username |-> email("b")]}
  /\ members = {}
  /\ pc = "idle"
  /\ run = 0
  /\ projectRecords = <<>>
  /\ i = 0
  /\ existingGroup = {} /\ keycloakGroup = {} /\ projectUserRecords = <<>>
  /\ j = 0 /\ owner = {} /\ keyPair = {} /\ userId = 0 /\ user = {} /\ insertId = 0
  /\ generated = 0 /\ failures = 0 /\ runFailed = FALSE /\ prevClean = FALSE
  /\ snap = [groups |-> groups, members |-> members, users |-> users,
             sshKey |-> sshKey, userSshKey |-> userSshKey, project |-> project]
  /\ ops = [p \in Projects |-> {}]
  /\ genCount = [p \in Projects |-> 0]
  /\ addUserCount = [p \in Projects |-> 0]
  /\ fpOf = [p \in Projects |-> 0]
  /\ identityOf = [p \in Projects |-> 0]
  /\ guestOf = [p \in Projects |-> 0]
  /\ destroyed = 0
  /\ completed = 0
  /\ backfills = 0

\* ------------------------------------------------------------- helpers

\* An awaited call either returns or throws; throws are budgeted.
Outcome(ok) == ok \/ failures < MaxFailures
Threw == failures' = failures + 1 /\ runFailed' = TRUE
Returned == UNCHANGED <<failures, runFailed>>

cur == projectRecords[i]
Did(op) == ops' = [ops EXCEPT ![cur.id] = @ \cup {op}]

ResetLocals ==
  /\ existingGroup' = {} /\ keycloakGroup' = {} /\ projectUserRecords' = <<>>
  /\ j' = 0 /\ owner' = {} /\ keyPair' = {} /\ userId' = 0 /\ user' = {} /\ insertId' = 0

\* `continue`, or falling off the end of the loop body.
NextProject ==
  /\ i' = i + 1
  /\ pc' = IF i + 1 > Len(projectRecords) THEN "completed" ELSE "loadGroup"
  /\ ResetLocals

OwnerStepAgain(n) ==
  /\ j' = j
  /\ owner' = {}
  /\ pc' = "loadUserByUsername"
\* The next project user, or the key step after the last one.
OwnerStep(n) ==
  /\ j' = n
  /\ owner' = {}
  /\ pc' = IF n > Len(projectUserRecords) THEN "keyPair" ELSE "loadUserByUsername"

\* The catch block of the owner loop reads keycloakGroup.name.
OwnerCatch ==
  IF keycloakGroup = {}
    THEN /\ pc' = "crashed"
         /\ UNCHANGED <<j, owner>>
    ELSE OwnerStep(j + 1)

\* ------------------------------------------------------------- the run

StartRun ==
  /\ pc \in {"idle", "done", "crashed"}
  /\ run < MaxRuns
  /\ run' = run + 1
  /\ pc' = "auth"
  /\ prevClean' = (pc = "done" /\ ~runFailed)
  /\ snap' = Store
  /\ runFailed' = FALSE
  /\ projectRecords' = <<>>
  /\ i' = 0
  /\ ResetLocals
  /\ ops' = [p \in Projects |-> {}]
  /\ fpOf' = [p \in Projects |-> 0]
  /\ identityOf' = [p \in Projects |-> 0]
  /\ guestOf' = [p \in Projects |-> 0]
  /\ backfills' = 0
  /\ UNCHANGED <<db, kc, failures, counts, destroyed, completed>>

Auth ==
  /\ pc = "auth"
  /\ \E ok \in BOOLEAN :
       /\ Outcome(ok)
       /\ IF ok THEN pc' = "backfill" /\ Returned
                ELSE pc' = "crashed" /\ Threw
  /\ UNCHANGED <<db, kc, i, locals, ops, perRun, counts, ctl>>

BackfillRowAll(row, c) == [row EXCEPT !.privateKey = c]
\* UPDATE project p INNER JOIN customer c ... SET p.private_key = c.private_key
\* WHERE p.private_key IS NULL
BackfillRow(row, c) == IF IsNil(row.privateKey) THEN [row EXCEPT !.privateKey = c] ELSE row

Backfill ==
  /\ pc = "backfill"
  /\ \E ok \in BOOLEAN :
       /\ Outcome(ok)
       /\ IF ok THEN /\ project' = [p \in Projects |-> BackfillRow(project[p], customer)]
                     /\ pc' = "select"
                     /\ Returned
                ELSE /\ pc' = "crashed"
                     /\ Threw
                     /\ UNCHANGED project
  /\ backfills' = backfills + 1
  /\ UNCHANGED <<customer, projectUser, sshKey, userSshKey, kc, i, locals, ops,
                 perRun, counts, run, projectRecords, prevClean, snap, destroyed,
                 completed>>

SelectProjects ==
  /\ pc = "select"
  /\ \E ok \in BOOLEAN :
       /\ Outcome(ok)
       /\ IF ok THEN /\ projectRecords' = [p \in Projects |-> project[p]]
                     /\ i' = 1
                     /\ pc' = IF NumProjects = 0 THEN "completed" ELSE "loadGroup"
                     /\ Returned
                ELSE /\ pc' = "crashed"
                     /\ Threw
                     /\ UNCHANGED <<projectRecords, i>>
  /\ UNCHANGED <<db, kc, locals, ops, perRun, counts, run, prevClean, snap,
                 destroyed, completed, backfills>>

\* ------------------------------------------------------------- group

GroupNamed(name) == {g \in groups : g.name = name}

\* GroupModel.loadGroupByName returns the group or throws: GroupNotFoundError
\* when no group has the name, or any other error.
LoadOutcomes(found) ==
  IF found = {} THEN {"GroupNotFoundError", "Error"} ELSE {"group", "Error"}

\* `if (err instanceof GroupNotFoundError)`
CatchCreatesAlways(err) == TRUE
CatchCreates(err) == err = "GroupNotFoundError"

LoadGroupByName ==
  /\ pc = "loadGroup"
  /\ LET found == GroupNamed(projectGroupName(cur.name)) IN
     \E o \in LoadOutcomes(found) :
       /\ Outcome(o # "Error")
       /\ IF o = "Error" THEN Threw ELSE Returned
       /\ IF o = "group"
            THEN /\ \E g \in found : existingGroup' = {g}
                 /\ pc' = "updateGroup"
                 /\ Did(o)
            ELSE /\ existingGroup' = {}
                 /\ IF CatchCreates(o)
                      THEN /\ pc' = "addGroup"
                           /\ Did(o)
                      ELSE \* logged, and the loop body goes on
                           /\ pc' = "projectUsers"
                           /\ Did("groupFailed")
  /\ UNCHANGED <<db, kc, i, keycloakGroup, projectUserRecords, j, owner, keyPair,
                 userId, user, insertId, perRun, counts, ctl>>

\* The argument of GroupModel.updateGroup.
UpdateInput(existing, pid) ==
  [id |-> existing.id, name |-> existing.name,
   attributes |-> SpreadAttributes(existing.attributes, NewAttributes(pid))]

\* GroupModel.updateGroup: the group with that id takes the given name and attributes.
updateGroup(gs, input) == {IF g.id = input.id THEN input ELSE g : g \in gs}

UpdateGroup ==
  /\ pc = "updateGroup"
  /\ \E ok \in BOOLEAN, g \in existingGroup :
       /\ Outcome(ok)
       /\ IF ok
            THEN /\ Returned
                 /\ groups' = updateGroup(groups, UpdateInput(g, cur.id))
                 /\ keycloakGroup' = {UpdateInput(g, cur.id)}
                 /\ Did("updateGroup")
            ELSE /\ Threw
                 /\ UNCHANGED <<groups, keycloakGroup>>
                 /\ Did("groupFailed")
  /\ pc' = "projectUsers"
  /\ UNCHANGED <<db, users, members, i, existingGroup, projectUserRecords, j, owner,
                 keyPair, userId, user, insertId, perRun, counts, ctl>>

\* The argument of GroupModel.addGroup.
AddInput(name, pid) == [name |-> projectGroupName(name), attributes |-> NewAttributes(pid)]

\* GroupModel.addGroup: a new group with a provider-assigned id.
addGroup(gs, input) ==
  [id |-> FreshId(gs), name |-> input.name, attributes |-> input.attributes]

AddGroup ==
  /\ pc = "addGroup"
  /\ \E ok \in BOOLEAN :
       /\ Outcome(ok)
       /\ IF ok
            THEN /\ Returned
                 /\ groups' = groups \cup {addGroup(groups, AddInput(cur.name, cur.id))}
                 /\ keycloakGroup' = {addGroup(groups, AddInput(cur.name, cur.id))}
                 /\ pc' = "projectUsers"
                 /\ Did("addGroup")
                 /\ UNCHANGED <<i, existingGroup, projectUserRecords, j, owner, keyPair,
                                userId, user, insertId>>
            ELSE \* logged, then `continue`
                 /\ Threw
                 /\ UNCHANGED groups
                 /\ Did("groupFailed")
                 /\ NextProject
  /\ UNCHANGED <<db, users, members, perRun, counts, ctl>>

\* ------------------------------------------------------------- owners

projectUserQueryAll(pid) ==
  LET all[n \in 0..NumProjects] == IF n = 0 THEN <<>> ELSE all[n - 1] \o projectUser[n]
  IN all[NumProjects]
\* SELECT u.email FROM project_user pu LEFT JOIN user u ... WHERE pu.pid = :pid
projectUserQuery(pid) == projectUser[pid]

ProjectUsers ==
  /\ pc = "projectUsers"
  /\ \E ok \in BOOLEAN :
       /\ Outcome(ok)
       /\ IF ok
            THEN /\ Returned
                 /\ projectUserRecords' = projectUserQuery(cur.id)
                 /\ j' = 1
                 /\ owner' = {}
                 /\ pc' = IF Len(projectUserQuery(cur.id)) = 0 THEN "keyPair"
                                                         ELSE "loadUserByUsername"
                 /\ UNCHANGED i
            ELSE \* not inside any try block
                 /\ Threw
                 /\ pc' = "crashed"
                 /\ UNCHANGED <<i, projectUserRecords, j, owner>>
  /\ UNCHANGED <<db, kc, existingGroup, keycloakGroup, keyPair, userId, user,
                 insertId, ops, perRun, counts, ctl>>

\* UserModel.loadUserByUsername(projectUser.email)
LoadUserByUsername ==
  /\ pc = "loadUserByUsername"
  /\ LET found == {u \in users : u.username = projectUserRecords[j]} IN
     \E ok \in BOOLEAN :
       /\ Outcome(ok)
       /\ ok => found # {}
       /\ IF ok
            THEN /\ Returned
                 /\ \E u \in found : owner' = {u}
                 /\ pc' = "addOwner"
                 /\ UNCHANGED j
            ELSE /\ Threw
                 /\ OwnerCatch
  /\ Did("loadUserByUsername")
  /\ UNCHANGED <<db, kc, i, existingGroup, keycloakGroup, projectUserRecords,
                 keyPair, userId, user, insertId, perRun, counts, ctl>>

\* GroupModel.addUserToGroup: throws when handed no user or no group.
Membership(u, g, role) == [user |-> u.id, group |-> g.id, role |-> role]
WellFormedAdd(us, gs) == us # {} /\ gs # {}

AddOwner ==
  /\ pc = "addOwner"
  /\ \E ok \in BOOLEAN :
       /\ ok => WellFormedAdd(owner, keycloakGroup)
       /\ ~ok => (~WellFormedAdd(owner, keycloakGroup) \/ failures < MaxFailures)
       /\ IF ok
            THEN /\ Returned
                 /\ members' = members \cup
                      {Membership(u, g, "owner") : u \in owner, g \in keycloakGroup}
                 /\ OwnerStep(j + 1)
            ELSE /\ IF WellFormedAdd(owner, keycloakGroup)
                      THEN Threw
                      ELSE runFailed' = TRUE /\ UNCHANGED failures
                 /\ UNCHANGED members
                 /\ OwnerCatch
  /\ Did("addOwner")
  /\ UNCHANGED <<db, groups, users, i, existingGroup, keycloakGroup,
                 projectUserRecords, keyPair, userId, user, insertId, perRun,
                 counts, ctl>>

\* ------------------------------------------------------------- key pair

\* R.cond([[R.isNil, generate], [R.isEmpty, generate], [R.T, parsePrivateKey]])
Generates(t) == IsNil(t) \/ IsEmpty(t)

\* generatePrivateKey('ed25519'): a key no row holds yet.
FreshKey == NumProjects + 1 + generated

NeedsSaveAlways(t) == TRUE
NeedsSaveNever(t) == FALSE
\* `if (!R.prop('privateKey', project))`
NeedsSave(t) == ~Truthy(t)

AfterKeyPair(t) == IF NeedsSave(t) THEN "saveKey" ELSE "fingerprint"

GenerateKey ==
  /\ pc = "keyPair"
  /\ Generates(cur.privateKey)
  /\ \E ok \in BOOLEAN :
       /\ Outcome(ok)
       /\ IF ok
            THEN /\ Returned
                 /\ keyPair' = {KeyPairOf(FreshKey)}
                 /\ generated' = generated + 1
                 /\ genCount' = [genCount EXCEPT ![cur.id] = @ + 1]
                 /\ pc' = AfterKeyPair(cur.privateKey)
                 /\ Did("generate")
                 /\ UNCHANGED <<i, existingGroup, keycloakGroup, projectUserRecords,
                                j, owner, userId, user, insertId>>
            ELSE \* logged, then `continue`
                 /\ Threw
                 /\ UNCHANGED <<generated, genCount>>
                 /\ Did("keyFailed")
                 /\ NextProject
  /\ UNCHANGED <<db, kc, perRun, addUserCount, ctl>>

ParseKey ==
  /\ pc = "keyPair"
  /\ ~Generates(cur.privateKey)
  /\ IF Parseable(cur.privateKey)
       THEN /\ keyPair' = {KeyPairOf(parsePrivateKey(cur.privateKey))}
            /\ pc' = AfterKeyPair(cur.privateKey)
            /\ Did("parse")
            /\ UNCHANGED <<i, existingGroup, keycloakGroup, projectUserRecords,
                           j, owner, userId, user, insertId>>
       ELSE \* logged, then `continue`
            /\ Did("keyFailed")
            /\ NextProject
  /\ UNCHANGED <<db, kc, failures, runFailed, perRun, counts, ctl>>

\* UPDATE project p SET private_key = :pkey WHERE id = :pid
SaveKey ==
  /\ pc = "saveKey"
  /\ \E ok \in BOOLEAN, kp \in keyPair :
       /\ Outcome(ok)
       /\ IF ok
            THEN /\ Returned
                 /\ project' = [project EXCEPT ![cur.id].privateKey = kp.private]
                 /\ pc' = "fingerprint"
            ELSE \* not inside any try block
                 /\ Threw
                 /\ pc' = "crashed"
                 /\ UNCHANGED project
  /\ Did("saveKey")
  /\ UNCHANGED <<customer, projectUser, sshKey, userSshKey, kc, i, locals, perRun,
                 counts, ctl>>

\* ------------------------------------------------------------- default user

\* selectUserIdsBySshKeyFingerprint: the users linked to a key with the fingerprint.
UserIdsByFingerprint(fp) ==
  {l.usid : l \in {l \in userSshKey :
                     \E k \in sshKey : k.id = l.skid /\ k.keyFingerprint = fp}}

AfterLookupCreates(id) == "addUser"
\* R.path([0, 'usid'], userRows) and `if (!userId)`
AfterLookup(id) == IF id = 0 THEN "addUser" ELSE "loadUserById"

SelectUserIds ==
  /\ pc = "fingerprint"
  /\ \E ok \in BOOLEAN, kp \in keyPair :
       LET fp == getSshKeyFingerprint(kp.public)
           rows == UserIdsByFingerprint(fp)
       IN /\ Outcome(ok)
          /\ IF ok
               THEN /\ Returned
                    /\ \E id \in (IF rows = {} THEN {0} ELSE rows) :
                         /\ userId' = id
                         /\ pc' = AfterLookup(id)
                    /\ fpOf' = [fpOf EXCEPT ![cur.id] = fp]
               ELSE \* not inside any try block
                    /\ Threw
                    /\ pc' = "crashed"
                    /\ UNCHANGED <<userId, fpOf>>
  /\ Did("fingerprint")
  /\ UNCHANGED <<db, kc, i, existingGroup, keycloakGroup, projectUserRecords, j,
                 owner, keyPair, user, insertId, identityOf, guestOf, counts, ctl>>

\* UserModel.addUser: usernames are unique in the identity provider.
addUser(us, name) == [id |-> FreshId(us), username |-> defaultUserName(name)]
UsernameTaken(us, name) == \E u \in us : u.username = defaultUserName(name)

AddUser ==
  /\ pc = "addUser"
  /\ \E ok \in BOOLEAN :
       /\ ok => ~UsernameTaken(users, cur.name)
       /\ ~ok => (UsernameTaken(users, cur.name) \/ failures < MaxFailures)
       /\ IF ok
            THEN /\ Returned
                 /\ users' = users \cup {addUser(users, cur.name)}
                 /\ user' = {addUser(users, cur.name)}
                 /\ pc' = "insertSshKey"
            ELSE /\ IF UsernameTaken(users, cur.name)
                      THEN runFailed' = TRUE /\ UNCHANGED failures
                      ELSE Threw
                 /\ pc' = "addGuest"
                 /\ UNCHANGED <<users, user>>
  /\ addUserCount' = [addUserCount EXCEPT ![cur.id] = @ + 1]
  /\ Did("addUser")
  /\ UNCHANGED <<db, groups, members, i, existingGroup, keycloakGroup,
                 projectUserRecords, j, owner, keyPair, userId, insertId, perRun,
                 generated, genCount, ctl>>

InsertSshKey ==
  /\ pc = "insertSshKey"
  /\ \E ok \in BOOLEAN, kp \in keyPair :
       /\ Outcome(ok)
       /\ IF ok
            THEN /\ Returned
                 /\ sshKey' = sshKey \cup {SshKeyRow(FreshId(sshKey), kp.public)}
                 /\ insertId' = FreshId(sshKey)
                 /\ pc' = "addSshKeyToUser"
            ELSE /\ Threw
                 /\ pc' = "addGuest"
                 /\ UNCHANGED <<sshKey, insertId>>
  /\ Did("insertSshKey")
  /\ UNCHANGED <<project, customer, projectUser, userSshKey, kc, i, existingGroup,
                 keycloakGroup, projectUserRecords, j, owner, keyPair, userId, user,
                 perRun, counts, ctl>>

\* addSshKeyToUser({sshKeyId: insertId, userId: user.id})
AddSshKeyToUser ==
  /\ pc = "addSshKeyToUser"
  /\ \E ok \in BOOLEAN, u \in user :
       /\ Outcome(ok)
       /\ IF ok
            THEN /\ Returned
                 /\ userSshKey' = userSshKey \cup {[usid |-> u.id, skid |-> insertId]}
                 /\ identityOf' = [identityOf EXCEPT ![cur.id] = u.id]
            ELSE /\ Threw
                 /\ UNCHANGED <<userSshKey, identityOf>>
  /\ pc' = "addGuest"
  /\ Did("addSshKeyToUser")
  /\ UNCHANGED <<project, customer, projectUser, sshKey, kc, i, locals, fpOf, guestOf,
                 counts, ctl>>

\* UserModel.loadUserById(userId)
LoadUserById ==
  /\ pc = "loadUserById"
  /\ LET found == {u \in users : u.id = userId} IN
     \E ok \in BOOLEAN :
       /\ Outcome(ok)
       /\ ok => found # {}
       /\ IF ok
            THEN /\ Returned
                 /\ \E u \in found :
                      /\ user' = {u}
                      /\ identityOf' = [identityOf EXCEPT ![cur.id] = u.id]
                 /\ pc' = "addGuest"
            ELSE \* not inside any try block
                 /\ Threw
                 /\ pc' = "crashed"
                 /\ UNCHANGED <<user, identityOf>>
  /\ Did("loadUserById")
  /\ UNCHANGED <<db, kc, i, existingGroup, keycloakGroup, projectUserRecords, j,
                 owner, keyPair, userId, insertId, fpOf, guestOf, counts, ctl>>

\* GroupModel.addUserToGroup(user, keycloakGroup, 'guest')
AddGuest ==
  /\ pc = "addGuest"
  /\ \E ok \in BOOLEAN :
       LET arg == user IN
       /\ ok => WellFormedAdd(arg, keycloakGroup)
       /\ ~ok => (~WellFormedAdd(arg, keycloakGroup) \/ failures < MaxFailures)
       /\ IF ok
            THEN /\ Returned
                 /\ members' = members \cup
                      {Membership(u, g, "guest") : u \in arg, g \in keycloakGroup}
                 /\ \E u \in arg : guestOf' = [guestOf EXCEPT ![cur.id] = u.id]
            ELSE /\ IF WellFormedAdd(arg, keycloakGroup)
                      THEN Threw
                      ELSE runFailed' = TRUE /\ UNCHANGED failures
                 /\ UNCHANGED <<members, guestOf>>
  /\ Did("addGuest")
  /\ NextProject
  /\ UNCHANGED <<db, groups, users, fpOf, identityOf, counts, ctl>>

\* logger.info('Migration completed'); sqlClient.destroy()
Complete ==
  /\ pc = "completed"
  /\ pc' = "done"
  /\ completed' = completed + 1
  /\ destroyed' = destroyed + 1
  /\ UNCHANGED <<db, kc, i, locals, failures, runFailed, ops, perRun, counts, run,
                 projectRecords, prevClean, snap, backfills>>

Next ==
  \/ StartRun \/ Auth \/ Backfill \/ SelectProjects
  \/ LoadGroupByName \/ UpdateGroup \/ AddGroup
  \/ ProjectUsers \/ LoadUserByUsername \/ AddOwner
  \/ GenerateKey \/ ParseKey \/ SaveKey
  \/ SelectUserIds \/ AddUser \/ InsertSshKey \/ AddSshKeyToUser \/ LoadUserById
  \/ AddGuest \/ Complete

Spec == Init /\ [][Next]_vars

\* --------------------------------------------------------------- claims

\* The steps of a project's iteration that follow the group upsert.
AfterGroupOps ==
  {"loadUserByUsername", "addOwner", "generate", "parse", "saveKey", "fingerprint",
   "addUser", "insertSshKey", "addSshKeyToUser", "loadUserById", "addGuest"}

\* The steps of a project's iteration that follow the key pair.
AfterKeyOps ==
  {"saveKey", "fingerprint", "addUser", "insertSshKey", "addSshKeyToUser",
   "loadUserById", "addGuest"}

\* The projects the current run has read.
Read == {p \in Projects : p \in DOMAIN projectRecords}

\* C1: a failure of an operation performed while a project is processed never
\* ends the run: the run is never aborted from inside the per-project loop.
C1_FailureStaysInIteration == ~(pc = "crashed" /\ i >= 1)

\* C2: once a project's group could not be resolved, no later step of that
\* project's iteration (owner add, key, identity, guest add) is performed.
C2_GroupFailureSkipsProject ==
  \A p \in Projects : "groupFailed" \in ops[p] => ops[p] \cap AfterGroupOps = {}

\* C3: a project whose stored key text is non-empty and unparseable gets no
\* write-back, fingerprint lookup, identity, key record or guest add, and its
\* key step changes nothing in either store and hands over to the next project.
Malformed(t) == t.kind = "garbage"

C3_NoLaterStep ==
  \A p \in Read : Malformed(projectRecords[p].privateKey) => ops[p] \cap AfterKeyOps = {}

C3_KeyStepIsolated ==
  (pc = "keyPair" /\ Malformed(cur.privateKey)) =>
     /\ UNCHANGED <<db, kc>>
     /\ i' = i + 1
     /\ pc' = IF i = Len(projectRecords) THEN "completed" ELSE "loadGroup"

\* C3: both parts, the state invariant and the step property of the key step.
C3_KeyParseFailureIsolated == []C3_NoLaterStep /\ [][C3_KeyStepIsolated]_vars

\* C3 witness: a malformed project was skipped and the project after it went
\* on to bind its default user.
C3_Witness ==
  \E p, q \in Read :
    /\ p < q
    /\ Malformed(projectRecords[p].privateKey)
    /\ "keyFailed" \in ops[p]
    /\ guestOf[q] # 0

\* C4: a run in which nothing failed, started right after a run in which
\* nothing failed, ends with the groups, memberships, identities, key records,
\* key links and stored private keys the earlier run left.
C4_SecondRunChangesNothing ==
  (pc = "done" /\ prevClean /\ ~runFailed) => Store = snap

\* C4 witness: such a second run has ended, after a first run that generated a
\* key, created a default user with its key record and added members.
C4_Witness ==
  /\ pc = "done" /\ prevClean /\ ~runFailed
  /\ \E p \in Projects : genCount[p] = 1
  /\ sshKey # {} /\ userSshKey # {} /\ members # {}

\* The steps that create a default user and its key record.
CreateOps == {"addUser", "insertSshKey", "addSshKeyToUser"}

\* C5: when a project resolves to the public key of a project processed before
\* it in the run, for which a key-bound identity was found or created, it
\* creates no identity and no key record, and the identity it resolves and adds
\* as guest is that one.
C5_SameKeySameIdentity ==
  \A p, q \in Projects :
    (p < q /\ fpOf[p] # 0 /\ fpOf[q] = fpOf[p] /\ identityOf[p] # 0) =>
       /\ ops[q] \cap CreateOps = {}
       /\ identityOf[q] \in {0, identityOf[p]}
       /\ guestOf[q] \in {0, identityOf[p]}

\* C5 witness: the first project created the identity, the second one sharing
\* its key added that identity as guest.
C5_Witness ==
  \E p, q \in Projects :
    /\ p < q /\ fpOf[p] # 0 /\ fpOf[q] = fpOf[p]
    /\ "addSshKeyToUser" \in ops[p]
    /\ identityOf[p] # 0
    /\ guestOf[q] = identityOf[p]

\* The fingerprints of the key records.
Fingerprints == {k.keyFingerprint : k \in sshKey}

\* C6: for every fingerprint there is at most one key record and at most one
\* identity linked to a key record with that fingerprint.
C6_FingerprintUnique ==
  \A fp \in Fingerprints :
    /\ Cardinality({k \in sshKey : k.keyFingerprint = fp}) <= 1
    /\ Cardinality(UserIdsByFingerprint(fp)) <= 1

\* Whether user id u is linked to a key record with fingerprint fp.
Bound(u, fp) ==
  \E k \in sshKey : k.keyFingerprint = fp /\ [usid |-> u, skid |-> k.id] \in userSshKey

\* C7: every identity a run adds as guest to a project's group is linked to a
\* key record with the fingerprint of the project's public key.
C7_GuestIsKeyBound ==
  \A p \in Projects : guestOf[p] # 0 => Bound(guestOf[p], fpOf[p])

\* C8 (as amended): the loop writes a project's private key exactly when the
\* key it read was absent or empty and a key was generated for it, the value
\* written is that generated key, a non-empty stored key is never changed, and
\* a key is generated for a project only while its row stores none, at most
\* once in a run.
C8_WrittenIffGenerated ==
  \A p \in Read :
    /\ "saveKey" \in ops[p] => (~Truthy(projectRecords[p].privateKey) /\ "generate" \in ops[p])
    /\ ("fingerprint" \in ops[p] /\ ~Truthy(projectRecords[p].privateKey)) =>
          (Truthy(project[p].privateKey) /\ "saveKey" \in ops[p])
    /\ genCount[p] <= run

C8_WriteIsGeneratedKey ==
  (pc # "backfill" /\ project' # project) =>
     /\ pc = "saveKey"
     /\ ~Truthy(cur.privateKey)
     /\ project' = [project EXCEPT ![cur.id].privateKey = ToOpenssh(NumProjects + generated)]

C8_StoredKeyKept ==
  \A p \in Projects : Truthy(project[p].privateKey) => project'[p] = project[p]

C8_GeneratesOnlyUnstored ==
  \A p \in Projects :
    genCount'[p] # genCount[p] =>
       (~Truthy(project[p].privateKey) /\ genCount'[p] = genCount[p] + 1)

\* C8 (as amended): the write-back invariant and the three step properties.
C8_KeyPersisted ==
  /\ []C8_WrittenIffGenerated
  /\ [][C8_WriteIsGeneratedKey /\ C8_StoredKeyKept /\ C8_GeneratesOnlyUnstored]_vars

\* C8 (as claimed): across any number of runs a key pair is generated at most
\* once per project.
C8_GeneratedAtMostOnce == \A p \in Projects : genCount[p] <= 1

\* C8 witness: a key generated and written back by one run was resolved from
\* storage by the next.
C8_Witness ==
  \E p \in Read :
    /\ run = 2
    /\ genCount[p] = 1
    /\ "parse" \in ops[p]
    /\ "fingerprint" \in ops[p]
    /\ project[p].privateKey.key > NumProjects

\* C9: updating an existing project group keeps its id and name, sets type and
\* lagoon-projects to the new values, leaves every other attribute as it was,
\* and touches no other group.
C9_UpdateMerges ==
  (pc = "updateGroup" /\ "updateGroup" \in ops'[cur.id]) =>
     \A g \in {x \in groups : x.name = projectGroupName(cur.name)} :
       \E h \in groups' :
         /\ h.id = g.id /\ h.name = g.name
         /\ DOMAIN h.attributes = DOMAIN g.attributes \cup {TypeAttr, ProjectsAttr}
         /\ h.attributes[TypeAttr] = <<"project-default-group">>
         /\ h.attributes[ProjectsAttr] = <<cur.id>>
         /\ \A k \in DOMAIN g.attributes \ {TypeAttr, ProjectsAttr} :
              h.attributes[k] = g.attributes[k]
         /\ groups' = (groups \ {g}) \cup {h}
         /\ keycloakGroup' = {h}

\* C9: every step of every behaviour is such an update or no update at all.
C9_GroupMerge == [][C9_UpdateMerges]_vars

\* C9 witness: a group that carried foo, a stale type and a stale project link
\* has been updated.
C9_Witness ==
  \E p \in Read, g \in groups :
    /\ "updateGroup" \in ops[p]
    /\ g.name = projectGroupName(projectRecords[p].name)
    /\ DOMAIN g.attributes = {TypeAttr, ProjectsAttr, "foo"}
    /\ g.attributes[ProjectsAttr] = <<p>>

\* C10: no two groups share a name; a group appears only in the create step
\* that follows a not-found lookup, while no group has its name, and it carries
\* exactly the type and project-link attributes.
C10_OnePerName == \A g, h \in groups : g.name = h.name => g = h

C10_CreateAfterNotFound ==
  \A h \in groups' :
    (\A g \in groups : g.id # h.id) =>
       /\ pc = "addGroup"
       /\ "GroupNotFoundError" \in ops[cur.id]
       /\ \A g \in groups : g.name # h.name
       /\ h.name = projectGroupName(cur.name)
       /\ h.attributes = NewAttributes(cur.id)

\* C10: the name invariant and the creation step property together.
C10_OneGroupPerName == []C10_OnePerName /\ [][C10_CreateAfterNotFound]_vars

\* C10 witness: two runs have passed, one of them with a failure, and a group
\* the process created is in place.
C10_Witness ==
  \E p \in Read, g \in groups :
    /\ run = 2 /\ failures > 0
    /\ g.name = projectGroupName(projectRecords[p].name)
    /\ g.attributes = NewAttributes(p)
    /\ "group" \in ops[p]

\* C11: a run that has read its project rows and has ended went through all of
\* them, reported completion and released the connection.
C11_RunFinishesAndReleases ==
  (pc \in {"done", "crashed"} /\ projectRecords # <<>>) =>
     /\ pc = "done"
     /\ i = Len(projectRecords) + 1
     /\ destroyed = completed
     /\ destroyed >= 1

\* The place of a step in a project's iteration; the owner loop counts its rows.
Pos(step, n) ==
  CASE step = "loadGroup" -> 100
    [] step \in {"updateGroup", "addGroup"} -> 200
    [] step = "projectUsers" -> 300
    [] step = "loadUserByUsername" -> 400 + 2 * n
    [] step = "addOwner" -> 401 + 2 * n
    [] step = "keyPair" -> 500
    [] step = "saveKey" -> 600
    [] step = "fingerprint" -> 700
    [] step \in {"addUser", "loadUserById"} -> 800
    [] step = "insertSshKey" -> 900
    [] step = "addSshKeyToUser" -> 1000
    [] step = "addGuest" -> 1100
    [] OTHER -> 0

\* C12: within a project a step is followed only by a later step; the loop
\* leaves a project for the next one only after the guest add, or early from
\* the group creation or the key step when that failed; no project is left
\* and entered again.
C12_StepInOrder ==
  Pos(pc, j) > 0 =>
    IF i' = i
      THEN pc' = "crashed" \/ Pos(pc', j') > Pos(pc, j)
      ELSE /\ i' = i + 1
           /\ pc' = IF i = Len(projectRecords) THEN "completed" ELSE "loadGroup"
           /\ pc \in {"addGroup", "keyPair", "addGuest"}
           /\ pc = "addGroup" => "groupFailed" \in ops'[projectRecords[i].id]
           /\ pc = "keyPair" => "keyFailed" \in ops'[projectRecords[i].id]

C12_StepOrder == [][C12_StepInOrder]_vars

\* C12 witness: a project went through every step up to the guest add and
\* the one after it was left early at the key step.
C12_Witness ==
  \E p, q \in Read :
    /\ p < q
    /\ {"GroupNotFoundError", "addGroup", "generate", "saveKey", "fingerprint", "addUser",
        "insertSshKey", "addSshKeyToUser", "addGuest"} \subseteq ops[p]
    /\ "keyFailed" \in ops[q]
    /\ pc = "completed"

\* C13: whatever happens to one project user's lookup or owner add, the loop
\* goes on with the next project user, or with the key step after the last.
C13_OwnerStepGoesOn ==
  ((pc = "loadUserByUsername" /\ pc' # "addOwner") \/ pc = "addOwner") =>
     /\ j' = j + 1
     /\ pc' = IF j = Len(projectUserRecords) THEN "keyPair" ELSE "loadUserByUsername"

C13_OwnerFailureIsolated == [][C13_OwnerStepGoesOn]_vars

\* The identities with role `role` in the group of project p.
MembersOf(p, role) ==
  {m.user : m \in {m \in members :
     /\ m.role = role
     /\ \E g \in groups : g.id = m.group /\ g.name = <<"project-", project[p].name>>}}

\* The identities of the legacy project-user rows of project p.
RowIdentities(p) ==
  {u.id : u \in {u \in users :
     \E n \in 1..Len(projectUser[p]) : u.username = projectUser[p][n]}}

LegacyIdentities == UNION {RowIdentities(p) : p \in Projects}
DefaultIdentities ==
  {u.id : u \in {u \in users : \E p \in Projects : u.username = <<"default-user@", project[p].name>>}}

\* A run has ended in which no call failed.
CleanEnd == pc = "done" /\ ~runFailed

\* After such a run every project's group has as owners exactly the identities
\* of the project's rows, none of them a default identity, and the guest the
\* run added is the identity bound to the fingerprint of the project's key.
C14_OwnersAndGuest ==
  CleanEnd =>
    \A p \in Projects :
      /\ MembersOf(p, "owner") = RowIdentities(p)
      /\ MembersOf(p, "owner") \cap DefaultIdentities = {}
      /\ IF fpOf[p] = 0
           THEN guestOf[p] = 0
           ELSE /\ guestOf[p] = identityOf[p]
                /\ guestOf[p] \in MembersOf(p, "guest")
                /\ Bound(guestOf[p], fpOf[p])

\* Every membership a step adds is in the group of the project being
\* processed; an owner is an identity of that project's rows.
C14_AddsToOwnGroup ==
  \A m \in members' \ members :
    /\ pc \in {"addOwner", "addGuest"}
    /\ \E g \in groups : g.id = m.group /\ g.name = <<"project-", cur.name>>
    /\ m.role = IF pc = "addOwner" THEN "owner" ELSE "guest"
    /\ m.role = "owner" => m.user \in RowIdentities(cur.id)

\* C14 as stated: after a failure-free run every project's group has as owners
\* exactly the identities of its rows and as guest the identity bound to its
\* key's fingerprint, and no guest is a legacy project user.
C14_NoLegacyGuest ==
  /\ C14_OwnersAndGuest
  /\ CleanEnd => \A p \in Projects : guestOf[p] \notin LegacyIdentities

\* C14, amended: as above, but a guest may be a legacy project user when that
\* user was linked to a key record with the project's fingerprint before the run.
C14_LegacyGuestOnlyIfBound ==
  CleanEnd =>
    \A p \in Projects :
      guestOf[p] \in LegacyIdentities =>
        \E k \in snap.sshKey :
          /\ k.keyFingerprint = fpOf[p]
          /\ [usid |-> guestOf[p], skid |-> k.id] \in snap.userSshKey

C14_MembershipOutcome ==
  /\ [](C14_OwnersAndGuest /\ C14_LegacyGuestOnlyIfBound)
  /\ [][C14_AddsToOwnGroup]_vars

\* C14 witness: a failure-free run has ended; one project has both its row
\* identities as owners and a created default identity as guest, another has
\* a legacy user, bound to its key beforehand, as guest.
C14_Witness ==
  /\ CleanEnd
  /\ \E p \in Projects :
       /\ Cardinality(MembersOf(p, "owner")) = 2
       /\ guestOf[p] \in LegacyIdentities
  /\ \E p \in Projects :
       /\ "addSshKeyToUser" \in ops[p]
       /\ MembersOf(p, "guest") = {guestOf[p]}
       /\ guestOf[p] \in DefaultIdentities

\* C15: the create-identity operation is never issued for a default username
\* that an identity already carries, so no run attempts a second identity of
\* the same username.
C15_CreateIssuedOnce ==
  pc = "addUser" => ~(\E u \in users : u.username = defaultUserName(cur.name))

\* C17: whenever addUserToGroup is about to be called, as owner or as guest,
\* the identity argument is a resolved identity and the group argument is the
\* resolved group of the current project.
C17_MembershipCallWellFormed ==
  /\ pc = "addOwner" =>
       /\ owner # {}
       /\ keycloakGroup # {}
       /\ \A g \in keycloakGroup : g.name = projectGroupName(cur.name)
  /\ pc = "addGuest" =>
       /\ user # {}
       /\ keycloakGroup # {}
       /\ \A g \in keycloakGroup : g.name = projectGroupName(cur.name)

\* C16: the backfill statement is issued at most once in a run and exactly
\* once before the project rows are read; nothing of a project is done before
\* it. A project whose key was null at the start of the run and whose customer
\* has a key is read with the customer's key and is never given a generated one.
C16_BackfillFirst ==
  /\ backfills <= 1
  /\ pc \in {"auth", "backfill"} =>
       /\ backfills = 0
       /\ projectRecords = <<>>
       /\ \A p \in Projects : ops[p] = {}
  /\ (pc = "select" \/ projectRecords # <<>>) => backfills = 1
  /\ \A p \in Read :
       (IsNil(snap.project[p].privateKey) /\ ~IsNil(customer)) =>
          /\ projectRecords[p].privateKey = customer
          /\ "generate" \notin ops[p]
          /\ ops[p] \cap AfterKeyOps # {} => "parse" \in ops[p]

\* C16: the backfill step gives every project whose key is null its
\* customer's key and leaves every other project row, and every other field,
\* as it was.
C16_BackfillFrame ==
  pc = "backfill" =>
    /\ UNCHANGED <<customer, projectUser, sshKey, userSshKey, kc>>
    /\ \A p \in Projects :
         \/ project'[p] = project[p]
         \/ /\ IsNil(project[p].privateKey)
            /\ project'[p] = [project[p] EXCEPT !.privateKey = customer]
    /\ pc' = "select" =>
         \A p \in Projects : IsNil(project[p].privateKey) => project'[p].privateKey = customer

C16_BackfillOnceBeforeLoop == []C16_BackfillFirst /\ [][C16_BackfillFrame]_vars

\* C16 witness: a project whose key was null at the start of the run was read
\* with its customer's key, parsed it and bound its default user, while another
\* project kept the key of its own that it had.
C16_Witness ==
  \E p, q \in Read :
    /\ IsNil(snap.project[p].privateKey)
    /\ ~IsNil(customer)
    /\ "parse" \in ops[p]
    /\ guestOf[p] # 0
    /\ Truthy(snap.project[q].privateKey)
    /\ projectRecords[q].privateKey = snap.project[q].privateKey
    /\ projectRecords[q].privateKey # customer

\* The fingerprints of the public keys of the private keys the project rows store.
StoredFingerprints ==
  {getSshKeyFingerprint(ToPublic(parsePrivateKey(project[p].privateKey))) :
     p \in {q \in Projects : Parseable(project[q].privateKey)}}

\* C18: every key record has the fingerprint of the public key of a private
\* key that some project row stores.
C18_KeyRecordHasStoredKey == \A k \in sshKey : k.keyFingerprint \in StoredFingerprints

\* C18 witness: the key record of a generated key exists and the project it
\* was generated for stores that key.
C18_Witness ==
  \E p \in Read, k \in sshKey :
    /\ {"generate", "saveKey", "insertSshKey"} \subseteq ops[p]
    /\ k.keyValue > NumProjects
    /\ k.keyFingerprint = fpOf[p]
    /\ Parseable(project[p].privateKey)
    /\ getSshKeyFingerprint(ToPublic(parsePrivateKey(project[p].privateKey))) = fpOf[p]

====
